---- MODULE Spec2Model ----
(***************************************************************************)
(* The ERC725 facade of src/src/index.ts: schema registration, schema      *)
(* resolution, store reads (single, batched, arrays) and the resolution    *)
(* of external references (JSONURL / ASSETURL) with hash verification.     *)
(*                                                                         *)
(* Strings of the program are TLA+ strings.  A storage key is the string   *)
(* "0x" \o name: an injective stand-in for keccak256(name).  Every value   *)
(* that the program passes around is a record with a tag, so that values   *)
(* of different shapes can be compared.                                    *)
(***************************************************************************)
EXTENDS Integers, Sequences, FiniteSets, TLC

\* Longest list of names handed to getData / fetchData.
MaxKeys == 2
\* Largest array length held by the store.
MaxArrayLength == 2
\* Longest list of candidate schemas handed to the constructor in SpecRegistry.
MaxSchemas == 3
\* Longest list of schemas supplied in a getSchema / encodeData call.
MaxProvided == 1

VARIABLES
  ctorSchemas,  \* the schemas argument the constructor was called with
  schemas,      \* this.options.schemas
  address,      \* this.options.address
  provider,     \* this.options.provider
  ipfsGateway,  \* this.options.ipfsGateway
  owner,        \* the contract's owner (address(0) before initialize)
  initialized,  \* the contract's initializer has run
  store,        \* the contract's key-value store, as the provider reads it
  badKeys,      \* keys for which a provider read is rejected
  web,          \* what fetch(url) answers, per url
  last          \* the last facade call: its operation, argument and outcome

vars == <<ctorSchemas, schemas, address, provider, ipfsGateway, owner, initialized,
          store, badKeys, web, last>>

-----------------------------------------------------------------------------
(* Values *)

NullV == [t |-> "null"]
StrV(s) == [t |-> "string", s |-> s]
NumV(n) == [t |-> "number", n |-> n]
RefV(hf, h, u) == [t |-> "ref", hashFunction |-> hf, hash |-> h, url |-> u]
ListV(items) == [t |-> "list", items |-> items]
\* Fetched content: the body, and the form it was read in (json / bytes).
ContentV(body, form) == [t |-> "content", body |-> body, form |-> form]
GarbageV == [t |-> "garbage"]

\* Raw values of the store.
NoRaw == [r |-> "unset"]
RawStr(s) == [r |-> "utf8", s |-> s]
RawUint(n) == [r |-> "uint256", n |-> n]
RawRef(sel, h, u) == [r |-> "packed", selector |-> sel, hash |-> h, url |-> u]
\* An array's collected entries, as getDataMultiple stores them in tmpData.
RawEntries(es) == [r |-> "entries", entries |-> es]

Ok(v) == [ok |-> TRUE, val |-> v]
Err(e) == [ok |-> FALSE, err |-> e]

\* JS objects: a sequence of [key, value] entries in insertion order.
ObjHas(obj, k) == \E i \in 1..Len(obj) : obj[i].key = k
ObjGet(obj, k) == obj[CHOOSE i \in 1..Len(obj) : obj[i].key = k].value
ObjSet(obj, k, v) ==
  IF ObjHas(obj, k)
  THEN [i \in 1..Len(obj) |-> IF obj[i].key = k THEN [key |-> k, value |-> v] ELSE obj[i]]
  ELSE Append(obj, [key |-> k, value |-> v])

-----------------------------------------------------------------------------
(* KeyCodec *)

IndexText == <<"0", "1", "2", "3", "4", "5">>

encodeKeyName(name) == "0x" \o name

encodeArrayKey(key, index) == key \o "#" \o IndexText[index + 1]

-----------------------------------------------------------------------------
(* SchemaRegistry *)

Descriptor(name, key, keyType, valueContent) ==
  [name |-> name, key |-> key, keyType |-> keyType, valueContent |-> valueContent]

validateSchemasKeepAll(s) == s

validateSchemas(s) == SelectSeq(s, LAMBDA d : d.key = encodeKeyName(d.name))

\* The first descriptor of the list whose key or name is keyOrName.
Matches(d, keyOrName) == d.key = keyOrName \/ d.name = keyOrName

getSchemaElement(list, keyOrName) ==
  IF \E i \in 1..Len(list) : Matches(list[i], keyOrName)
  THEN Ok(list[CHOOSE i \in 1..Len(list) :
              /\ Matches(list[i], keyOrName)
              /\ \A j \in 1..(i - 1) : ~Matches(list[j], keyOrName)])
  ELSE Err("SchemaNotFoundError")

-----------------------------------------------------------------------------
(* Store reader (the provider wrapper) *)

StoreRead(key) == IF key \in DOMAIN store THEN store[key] ELSE NoRaw

\* provider.getData(address, key)
providerGetData(key) ==
  IF key \in badKeys THEN Err("ProviderError") ELSE Ok(StoreRead(key))

\* provider.getAllData(address, keys): one batched read, answered in the order asked.
providerGetAllData(keys) ==
  IF \E i \in 1..Len(keys) : keys[i] \in badKeys
  THEN Err("ProviderError")
  ELSE Ok([i \in 1..Len(keys) |-> [key |-> keys[i], value |-> StoreRead(keys[i])]])

ReadOne(key) == [call |-> "getData", keys |-> <<key>>]
ReadMany(keys) == [call |-> "getAllData", keys |-> keys]

\* The reads that provider.getAllData(address, keys) is called for: one call
\* with all the keys.
readPerKey(keys) == [i \in 1..Len(keys) |-> ReadOne(keys[i])]

readBatched(keys) == <<ReadMany(keys)>>

-----------------------------------------------------------------------------
(* ValueCodec *)

toLowerCase(s) ==
  CASE s = "Array" -> "array"
    [] s = "Singleton" -> "singleton"
    [] s = "JSONURL" -> "jsonurl"
    [] s = "ASSETURL" -> "asseturl"
    [] s = "String" -> "string"
    [] s = "Number" -> "number"
    [] OTHER -> s

\* The 4-byte selector of a packed reference names the hash function.
HashFunctionOf(selector) ==
  CASE selector = "0x6f357c6a" -> "keccak256(utf8)"
    [] selector = "0x8019f9b1" -> "keccak256(bytes)"
    [] OTHER -> "unsupported"

IsExternalContent(valueContent) ==
  toLowerCase(valueContent) \in {"jsonurl", "asseturl"}

NeutralValue(valueContent) ==
  CASE IsExternalContent(valueContent) -> NullV
    [] valueContent = "Number" -> NumV(0)
    [] OTHER -> StrV("")

decodeKeyValue(valueContent, raw) ==
  CASE raw.r = "unset" -> NeutralValue(valueContent)
    [] raw.r = "utf8" /\ valueContent = "String" -> StrV(raw.s)
    [] raw.r = "uint256" /\ valueContent = "Number" -> NumV(raw.n)
    [] raw.r = "packed" /\ IsExternalContent(valueContent) ->
         RefV(HashFunctionOf(raw.selector), raw.hash, raw.url)
    [] OTHER -> GarbageV

ArrayLengthOf(raw) ==
  LET d == decodeKeyValue("Number", raw) IN IF d.t = "number" THEN d.n ELSE 0

\* decodeKey for an Array descriptor: the entries are matched by key, in index
\* order 0..length-1; with no element entry beside the length, the empty list.
decodeArray(schema, value) ==
  IF value.r # "entries" THEN ListV(<<>>)
  ELSE
    LET es == value.entries
        HasKey(k) == \E i \in 1..Len(es) : es[i].key = k
        At(k) == es[CHOOSE i \in 1..Len(es) : es[i].key = k].value
        n == IF HasKey(schema.key) THEN ArrayLengthOf(At(schema.key)) ELSE 0
    IN IF \A i \in 1..Len(es) : es[i].key = schema.key THEN ListV(<<>>)
       ELSE ListV([i \in 1..n |->
              IF HasKey(encodeArrayKey(schema.key, i - 1))
              THEN decodeKeyValue(schema.valueContent, At(encodeArrayKey(schema.key, i - 1)))
              ELSE NeutralValue(schema.valueContent)])

decodeKey(schema, value) ==
  IF toLowerCase(schema.keyType) = "array"
  THEN decodeArray(schema, value)
  ELSE decodeKeyValue(schema.valueContent, value)

RECURSIVE decodeDataFrom(_, _, _, _)
decodeDataFrom(data, list, i, acc) ==
  IF i > Len(data) THEN acc
  ELSE LET el == getSchemaElement(list, data[i].key)
       IN decodeDataFrom(data, list, i + 1,
            IF el.ok THEN ObjSet(acc, el.val.name, decodeKey(el.val, data[i].value))
            ELSE acc)

\* lib decodeData(data, schemas): every entry of data, under its descriptor's name.
decodeData(data, list) == decodeDataFrom(data, list, 1, <<>>)

-----------------------------------------------------------------------------
(* ArrayAssembler *)

\* The element keys 0..arrayLength-1 that data does not hold yet (lines 442-448).
arrayElementKeysInclusive(schema, data, arrayLength) ==
  SelectSeq([i \in 1..(arrayLength + 1) |-> encodeArrayKey(schema.key, i - 1)],
            LAMBDA k : ~ObjHas(data, k))

arrayElementKeysOf(schema, data, arrayLength) ==
  SelectSeq([i \in 1..arrayLength |-> encodeArrayKey(schema.key, i - 1)],
            LAMBDA k : ~ObjHas(data, k))

\* The batched read of the missing element keys; a failure is swallowed.
fetchArrayElementsNoCatch(keys) ==
  LET got == providerGetAllData(keys)
  IN IF got.ok THEN [threw |-> FALSE, results |-> got.val]
     ELSE [threw |-> TRUE, results |-> <<>>]

fetchArrayElements(keys) ==
  LET got == providerGetAllData(keys)
  IN [threw |-> FALSE, results |-> IF got.ok THEN got.val ELSE <<>>]

\* getArrayValues(schema, data): data maps a key to its {key, value} entry.
getArrayValues(schema, data) ==
  IF schema.keyType # "Array"
  THEN [threw |-> TRUE, results |-> <<>>, reads |-> <<>>]
  ELSE IF ~ObjHas(data, schema.key) \/ ObjGet(data, schema.key).value.r = "unset"
  THEN [threw |-> FALSE, results |-> <<>>, reads |-> <<>>]
  ELSE
    LET arrayLength == ArrayLengthOf(ObjGet(data, schema.key).value)
        arrayElementKeys == arrayElementKeysOf(schema, data, arrayLength)
        got == fetchArrayElements(arrayElementKeys)
    IN [threw |-> got.threw, results |-> got.results,
        reads |-> readBatched(arrayElementKeys)]

-----------------------------------------------------------------------------
(* FacadeOrchestrator: reads *)

ObjectV(entries) == [t |-> "object", entries |-> entries]

Done(v, reads) == [ok |-> TRUE, val |-> v, reads |-> reads]
Fail(e, reads) == [ok |-> FALSE, err |-> e, reads |-> reads]

isAddress(a) == a = "0xAddr"

\* getAddressAndProvider(): throws unless the address is set and valid and a
\* provider is set.
getAddressAndProviderUnchecked ==
  Ok([address |-> address, provider |-> provider])

getAddressAndProvider ==
  IF address = "" \/ ~isAddress(address) THEN Err("Missing ERC725 contract address.")
  ELSE IF provider = "none" THEN Err("Missing provider.")
  ELSE Ok([address |-> address, provider |-> provider])

LengthEntry(schema, raw) == [key |-> schema.key, value |-> raw]

\* Lines 478-485: the array's values, with the length entry appended, decoded.
assembleArray(keySchema, dataKeyValue, lengthEntry, reads) ==
  LET arrayValues == getArrayValues(keySchema, dataKeyValue)
  IN IF arrayValues.threw THEN Fail("Error", reads \o arrayValues.reads)
     ELSE IF Len(arrayValues.results) > 0
     THEN Done(decodeKey(keySchema, RawEntries(Append(arrayValues.results, lengthEntry))),
               reads \o arrayValues.reads)
     ELSE Done(ListV(<<>>), reads \o arrayValues.reads)

getDataSingle(data) ==
  LET keySchema == getSchemaElement(schemas, data)
  IN IF ~keySchema.ok THEN Fail(keySchema.err, <<>>)
     ELSE
       LET rawData == providerGetData(keySchema.val.key)
           reads == <<ReadOne(keySchema.val.key)>>
       IN IF ~rawData.ok THEN Fail(rawData.err, reads)
          ELSE IF toLowerCase(keySchema.val.keyType) = "array"
          THEN
            LET lengthEntry == LengthEntry(keySchema.val, rawData.val)
                dataKeyValue == <<[key |-> keySchema.val.key, value |-> lengthEntry]>>
            IN assembleArray(keySchema.val, dataKeyValue, lengthEntry, reads)
          ELSE Done(decodeKey(keySchema.val, rawData.val), reads)

RECURSIVE toObject(_, _, _)
toObject(pairs, i, acc) ==
  IF i > Len(pairs) THEN acc
  ELSE toObject(pairs, i + 1, ObjSet(acc, pairs[i].key, pairs[i].value))

\* The loop of getDataMultiple over the registry's Array descriptors (lines 517-527).
RECURSIVE arrayLoop(_, _, _)
arrayLoop(arraySchemas, i, st) ==
  IF i > Len(arraySchemas) \/ st.threw THEN st
  ELSE
    LET keySchema == arraySchemas[i]
        lengthEntry ==
          LengthEntry(keySchema,
                      IF ObjHas(st.tmpData, keySchema.key)
                      THEN ObjGet(st.tmpData, keySchema.key) ELSE NoRaw)
        dataKeyValue == <<[key |-> keySchema.key, value |-> lengthEntry]>>
        arrayValues == getArrayValues(keySchema, dataKeyValue)
    IN arrayLoop(arraySchemas, i + 1,
         [threw |-> arrayValues.threw,
          tmpData |-> IF ~arrayValues.threw /\ Len(arrayValues.results) > 0
                      THEN ObjSet(st.tmpData, keySchema.key,
                                  RawEntries(Append(arrayValues.results, lengthEntry)))
                      ELSE st.tmpData,
          reads |-> st.reads \o arrayValues.reads])

\* The descriptor of every requested name; one missing descriptor throws (lines 492-495).
keyHashesOf(keyNames) ==
  IF \E i \in 1..Len(keyNames) : ~getSchemaElement(schemas, keyNames[i]).ok
  THEN Err("SchemaNotFoundError")
  ELSE Ok([i \in 1..Len(keyNames) |-> getSchemaElement(schemas, keyNames[i]).val.key])

getDataMultiple(keyNames) ==
  LET keyHashes == keyHashesOf(keyNames)
  IN IF ~keyHashes.ok THEN Fail(keyHashes.err, <<>>)
     ELSE
       LET allRawData == providerGetAllData(keyHashes.val)
           reads == readBatched(keyHashes.val)
       IN IF ~allRawData.ok THEN Fail(allRawData.err, reads)
          ELSE
            LET tmpData == toObject(allRawData.val, 1, <<>>)
                arraySchemas ==
                  SelectSeq(schemas, LAMBDA e : toLowerCase(e.keyType) = "array")
                st == arrayLoop(arraySchemas, 1,
                                [threw |-> FALSE, tmpData |-> tmpData, reads |-> reads])
            IN IF st.threw THEN Fail("Error", st.reads)
               ELSE Done(ObjectV(decodeData(st.tmpData, schemas)), st.reads)

\* The argument keyOrKeys: a string, a list of strings, or undefined.
ArgString(s) == [kind |-> "string", s |-> s, names |-> <<>>]
ArgList(names) == [kind |-> "list", s |-> "", names |-> names]
ArgUndefined == [kind |-> "undefined", s |-> "", names |-> <<>>]

Falsy(arg) == arg.kind = "undefined" \/ (arg.kind = "string" /\ arg.s = "")

getData(arg) ==
  LET ap == getAddressAndProvider
  IN IF ~ap.ok THEN Fail(ap.err, <<>>)
     ELSE IF Falsy(arg)
     THEN getDataMultiple([i \in 1..Len(schemas) |-> schemas[i].name])
     ELSE IF arg.kind = "list" THEN getDataMultiple(arg.names)
     ELSE getDataSingle(arg.s)

\* provider.getOwner(address): the owner of the contract at the address.
OtherContract == "0xOther"
OtherOwner == "0xB2"
ReadOwner(target) == [call |-> "getOwner", keys |-> <<target>>]
providerGetOwner(target) == IF target = OtherContract THEN OtherOwner ELSE owner

\* getOwner(_address), lines 376-380; "" stands for a missing _address.
getOwner(_address) ==
  LET ap == getAddressAndProvider
  IN IF ~ap.ok THEN Fail(ap.err, <<>>)
     ELSE LET target == IF _address = "" THEN ap.val.address ELSE _address
          IN Done(StrV(providerGetOwner(target)), <<ReadOwner(target)>>)

-----------------------------------------------------------------------------
(* ExternalResolver *)

\* The default of the constructor (lines 100-102).
defaultConfig == [ipfsGateway |-> "https://cloudflare-ipfs.com/ipfs/"]

\* lib convertIPFSGatewayUrl: a gateway that ends in /ipfs/ is taken as it is.
\* Only such gateways are configured here.
convertIPFSGatewayUrl(gateway) == gateway

\* A missing config, or one without a gateway.
NoConfig == ""

\* A url is a sequence of pieces; "ipfs://" is a piece of its own.
HasIpfs(url) == \E i \in 1..Len(url) : url[i] = "ipfs://"
FirstIpfs(url) ==
  CHOOSE i \in 1..Len(url) :
    url[i] = "ipfs://" /\ \A j \in 1..(i - 1) : url[j] # "ipfs://"

patchNothing(receivedData) == receivedData

patchIPFSUrlsIfApplicable(receivedData) ==
  IF receivedData.t = "ref" /\ Len(receivedData.url) > 0 /\ HasIpfs(receivedData.url)
  THEN [receivedData EXCEPT !.url =
          [i \in 1..Len(receivedData.url) |->
             IF i = FirstIpfs(receivedData.url) THEN ipfsGateway ELSE receivedData.url[i]]]
  ELSE receivedData

KECCAK256_BYTES == "keccak256(bytes)"
KECCAK256_UTF8 == "keccak256(utf8)"

hashData(data, hashFunction) ==
  IF hashFunction = KECCAK256_BYTES THEN "keccak-bytes:" \o data.body
  ELSE "keccak-utf8:" \o data.body

\* lib isDataAuthentic: the digest of the data under the named hash function is
\* the expected hash; an unsupported hash function authenticates nothing.
isDataAuthentic(data, expectedHash, hashFunction) ==
  /\ hashFunction \in {KECCAK256_BYTES, KECCAK256_UTF8}
  /\ hashData(data, hashFunction) = expectedHash

\* fetch(url)
FetchResponse(url) == IF url \in DOMAIN web THEN web[url] ELSE [status |-> "fail"]

\* Lines 280-298: the fetch and the reading of the response body.
receiveData(dataEntry) ==
  IF dataEntry.t # "ref" THEN Err("TypeError")
  ELSE
    LET response == FetchResponse(patchIPFSUrlsIfApplicable(dataEntry).url)
    IN IF response.status = "fail" THEN Err("FetchError")
       ELSE IF dataEntry.hashFunction = KECCAK256_BYTES
       THEN Ok(ContentV(response.body, "bytes"))
       ELSE IF response.parsable THEN Ok(ContentV(response.body, "json"))
       ELSE Err("SyntaxError")

\* Lines 300-306: what the step assigns for the entry.
authenticatedOrNullUnchecked(receivedData, dataEntry) == receivedData

authenticatedOrNull(receivedData, dataEntry) ==
  IF isDataAuthentic(receivedData, dataEntry.hash, dataEntry.hashFunction)
  THEN receivedData
  ELSE NullV

\* fetch(url) as the step issues it: the entry, its patched copy, the url.
FetchOf(dataEntry) ==
  [entry |-> dataEntry, patched |-> patchIPFSUrlsIfApplicable(dataEntry),
   url |-> patchIPFSUrlsIfApplicable(dataEntry).url]

reducerCallSwallow(dataEntry) ==
  [threw |-> FALSE, err |-> "", value |-> NullV,
   fetches |-> IF dataEntry.t = "ref" THEN <<FetchOf(dataEntry)>> ELSE <<>>]

\* One call of the reducer (lines 274-309) on one entry:
\* whether it threw, and the value it assigned to accumulator[key].
reducerCall(dataEntry) ==
  IF dataEntry.t = "null"
  THEN [threw |-> FALSE, err |-> "", value |-> NullV, fetches |-> <<>>]
  ELSE
    LET receivedData == receiveData(dataEntry)
        fetches == IF dataEntry.t = "ref" THEN <<FetchOf(dataEntry)>> ELSE <<>>
    IN IF ~receivedData.ok
       THEN [threw |-> TRUE, err |-> receivedData.err, value |-> NullV,
             fetches |-> fetches]
       ELSE [threw |-> FALSE, err |-> "",
             value |-> authenticatedOrNull(receivedData.val, dataEntry),
             fetches |-> fetches]

\* Array.prototype.reduce with an async reducer and the initial value {}.
\* The first call receives the object {} and assigns to it; its return value is
\* a promise, so every later call receives the promise of the call before it
\* and assigns a property of that promise.  The promise of call i settles as
\* the promise of call i-1 does, unless call i itself throws.
\*   object:   the properties of the initial object
\*   assigned: per call, the key, the value and the accumulator it was given
\*             (0: the object, i: the promise of call i)
\*   rejected, error: the state of the last promise
\*   fetches:  the fetches issued, in order; every call issues its own
RECURSIVE reduceFrom(_, _, _)
reduceFrom(entries, i, acc) ==
  IF i > Len(entries) THEN acc
  ELSE
    LET call == reducerCall(entries[i].value)
    IN reduceFrom(entries, i + 1,
         [object |-> IF i = 1 /\ ~call.threw
                     THEN ObjSet(acc.object, entries[i].key, call.value)
                     ELSE acc.object,
          assigned |-> IF call.threw THEN acc.assigned
                       ELSE Append(acc.assigned,
                                   [key |-> entries[i].key, value |-> call.value,
                                    accumulator |-> i - 1]),
          rejected |-> call.threw \/ acc.rejected,
          error |-> IF call.threw THEN call.err ELSE acc.error,
          fetches |-> acc.fetches \o call.fetches])

externalEntriesOf(dataFromChain) ==
  SelectSeq(dataFromChain,
            LAMBDA e : LET keySchema == getSchemaElement(schemas, e.key)
                       IN keySchema.ok /\ IsExternalContent(keySchema.val.valueContent))

getDataFromExternalSources(dataFromChain) ==
  reduceFrom(externalEntriesOf(dataFromChain), 1,
             [object |-> <<>>, assigned |-> <<>>, rejected |-> FALSE, error |-> "",
              fetches |-> <<>>])

\* { ...dataFromChain, ...dataFromExternalSources }
spread(a, b) == toObject(b, 1, a)

\* Lines 225-233: a string argument gives the bare value, or null.
pickResultAlwaysObject(arg, results) == ObjectV(results)

pickResult(arg, results) ==
  IF arg.kind = "string"
  THEN IF ObjHas(results, arg.s) THEN ObjGet(results, arg.s) ELSE NullV
  ELSE ObjectV(results)

\* Lines 220-233: the entries of the chain overlaid with the resolved ones.
fetchDataResults(arg, dataFromChain, external) ==
  IF external.rejected
  THEN [ok |-> FALSE, err |-> external.error, reads |-> dataFromChain.reads,
        chain |-> dataFromChain.val.entries, assigned |-> external.assigned,
        fetches |-> external.fetches]
  ELSE [ok |-> TRUE,
        val |-> pickResult(arg, spread(dataFromChain.val.entries, external.object)),
        reads |-> dataFromChain.reads,
        chain |-> dataFromChain.val.entries, assigned |-> external.assigned,
        fetches |-> external.fetches]

\* Lines 216-218: a failure of getData leaves before anything is resolved.
fetchDataFromChain(arg, dataFromChain) ==
  IF ~dataFromChain.ok
  THEN [ok |-> FALSE, err |-> dataFromChain.err, reads |-> dataFromChain.reads,
        chain |-> <<>>, assigned |-> <<>>, fetches |-> <<>>]
  ELSE fetchDataResults(arg, dataFromChain,
                        getDataFromExternalSources(dataFromChain.val.entries))

fetchData(arg) ==
  LET keys == IF arg.kind = "list" \/ Falsy(arg) THEN arg ELSE ArgList(<<arg.s>>)
  IN fetchDataFromChain(arg, getData(keys))

-----------------------------------------------------------------------------
(* SchemaRegistry: resolution with schemas supplied in the call *)

\* Line 260: this.options.schemas.concat(providedSchemas || [])
effectiveSchemasProvidedFirst(providedSchemas) == providedSchemas \o schemas

effectiveSchemas(providedSchemas) == schemas \o providedSchemas

\* lib getSchema(key, list): the first descriptor of the list with that key, or null.
findSchema(key, list) ==
  IF \E i \in 1..Len(list) : list[i].key = key
  THEN [found |-> TRUE,
        schema |-> list[CHOOSE i \in 1..Len(list) :
                          list[i].key = key /\ \A j \in 1..(i - 1) : list[j].key # key]]
  ELSE [found |-> FALSE]

getSchema(key, providedSchemas) == findSchema(key, effectiveSchemas(providedSchemas))

-----------------------------------------------------------------------------
(* ValueCodec: encoding, and the facade's encodeData / decodeData *)

encodeKeyValue(valueContent, value) ==
  CASE valueContent = "String" /\ value.t = "string" -> Ok(RawStr(value.s))
    [] valueContent = "Number" /\ value.t = "number" -> Ok(RawUint(value.n))
    [] OTHER -> Err("EncodingError")

\* Lines 323-328: lib encodeData over this.options.schemas followed by the call's schemas.
encodeData(name, value, providedSchemas) ==
  LET el == getSchemaElement(schemas \o providedSchemas, name)
  IN IF ~el.ok THEN Err(el.err)
     ELSE LET raw == encodeKeyValue(el.val.valueContent, value)
          IN IF raw.ok THEN Ok([key |-> el.val.key, value |-> raw.val]) ELSE raw

\* Lines 355-357.
facadeDecodeData(data) == decodeData(data, schemas)

-----------------------------------------------------------------------------
(* The environment and the inputs *)

dN1 == Descriptor("N1", "0xN1", "Singleton", "String")
dJ1 == Descriptor("J1", "0xJ1", "Singleton", "JSONURL")
dJ2 == Descriptor("J2", "0xJ2", "Singleton", "ASSETURL")
dA == Descriptor("A[]", "0xA[]", "Array", "String")
\* A stale descriptor: its key is not the hash of its name.
dStale == Descriptor("N1", "0xOld", "Singleton", "String")
\* Same name and key as dJ1, another valueContent.
dJ1Str == Descriptor("J1", "0xJ1", "Singleton", "String")

RECURSIVE SeqsUpTo(_, _)
SeqsUpTo(S, n) ==
  IF n = 0 THEN {<<>>}
  ELSE LET shorter == SeqsUpTo(S, n - 1)
       IN shorter \cup {Append(q, x) : q \in shorter, x \in S}

ElemText == <<"a", "b", "c", "d", "e">>
ElementKeys == {encodeArrayKey(dA.key, i) : i \in 0..MaxArrayLength}
StoreKeys == {dN1.key, dJ1.key, dJ2.key, dA.key} \cup ElementKeys

Url1 == <<"ipfs://", "Qm1">>
Url2 == <<"https://example.org/", "2.json">>
\* A gateway given in the config (spec, scenario C).
Gw == "https://gw/ipfs/"
Url1Default == <<defaultConfig.ipfsGateway, "Qm1">>
Url1Gw == <<Gw, "Qm1">>
FetchedUrls == {Url1Default, Url1Gw, Url2}

Responses ==
  { [status |-> "fail"],
    [status |-> "ok", body |-> "c1", parsable |-> TRUE],
    [status |-> "ok", body |-> "c2", parsable |-> TRUE],
    [status |-> "ok", body |-> "junk", parsable |-> FALSE] }

RefChoices ==
  { NoRaw,
    RawRef("0x6f357c6a", "keccak-utf8:c1", Url1),
    RawRef("0x8019f9b1", "keccak-bytes:c1", Url2),
    RawRef("0xdeadbeef", "keccak-utf8:c1", Url2) }

\* References that differ in their url.
Url3 == <<"https://example.org/?u=", "ipfs://", "Qm1">>
UrlChoices ==
  { NoRaw,
    RawRef("0x6f357c6a", "keccak-utf8:c1", Url1),
    RawRef("0x6f357c6a", "keccak-utf8:c1", Url2),
    RawRef("0x8019f9b1", "keccak-bytes:c1", Url3) }

\* A store holding the given references and an array of n elements.
StoreWith(ref1, ref2, n) ==
  [k \in StoreKeys |->
     CASE k = dN1.key -> RawStr("hello")
       [] k = dJ1.key -> ref1
       [] k = dJ2.key -> ref2
       [] k = dA.key -> IF n < 0 THEN NoRaw ELSE RawUint(n)
       [] OTHER -> IF \E i \in 0..(n - 1) : k = encodeArrayKey(dA.key, i)
                   THEN RawStr(ElemText[(CHOOSE i \in 0..(n - 1) :
                                           k = encodeArrayKey(dA.key, i)) + 1])
                   ELSE NoRaw]

Strings == {"N1", "J1", "J2", "A[]", "U", "0xJ1", ""}
ListNames == {"N1", "J1", "J2", "A[]", "U"}
Args ==
  {ArgUndefined} \cup {ArgString(x) : x \in Strings}
    \cup {ArgList(q) : q \in SeqsUpTo(ListNames, MaxKeys)}

ProvidedChoices == SeqsUpTo({dJ1Str, dJ1, dStale}, MaxProvided)

TypeOK ==
  /\ schemas \in Seq({dN1, dJ1, dJ2, dA, dStale, dJ1Str})
  /\ address \in {"0xAddr", "nope", ""}
  /\ provider \in {"wrapper", "none"}
  /\ ipfsGateway \in {defaultConfig.ipfsGateway, Gw}
  /\ DOMAIN store = StoreKeys
  /\ badKeys \subseteq StoreKeys
  /\ DOMAIN web = FetchedUrls

-----------------------------------------------------------------------------
(* The constructor and the facade's operations *)

\* Lines 88-113: new ERC725(schemas, address, provider).
Constructed(candidates) ==
  /\ ctorSchemas = candidates
  /\ schemas = validateSchemas(candidates)
  /\ last = [op |-> "idle"]

\* Lines 108-111: the gateway of the config, or the default.
Configured(config) ==
  ipfsGateway = IF config = NoConfig THEN defaultConfig.ipfsGateway
                ELSE convertIPFSGatewayUrl(config)

\* The contract at the address is deployed and initialized.
Deployed ==
  /\ owner = "0xA1"
  /\ initialized = TRUE

Fixed(candidates, ref1, ref2, n) ==
  /\ Constructed(candidates)
  /\ Configured(NoConfig)
  /\ Deployed
  /\ address = "0xAddr"
  /\ provider = "wrapper"
  /\ store = StoreWith(ref1, ref2, n)

AllAnswer(response) == [u \in FetchedUrls |-> response]

\* The store's references and the web vary.
Init ==
  /\ \E ref1 \in RefChoices, ref2 \in RefChoices :
       Fixed(<<dN1, dJ1, dStale, dJ2, dA>>, ref1, ref2, MaxArrayLength)
  /\ badKeys = {}
  /\ web \in {w \in [FetchedUrls -> Responses] : w[Url1Gw] = [status |-> "fail"]}

\* The array's length and the keys the provider rejects vary.
InitRead ==
  /\ \E n \in (-1)..MaxArrayLength, ref1 \in {NoRaw, RawRef("0x6f357c6a", "keccak-utf8:c1", Url1)} :
       Fixed(<<dN1, dJ1, dStale, dJ2, dA>>, ref1, NoRaw, n)
  /\ badKeys \in {{}, {encodeArrayKey(dA.key, 0)}, {dJ2.key}}
  /\ web = AllAnswer([status |-> "ok", body |-> "c1", parsable |-> TRUE])

\* The schemas handed to the constructor vary.
InitRegistry ==
  /\ \E candidates \in SeqsUpTo({dN1, dJ1, dStale, dJ1Str}, MaxSchemas) :
       Fixed(candidates, RawRef("0x6f357c6a", "keccak-utf8:c1", Url1), NoRaw, 1)
  /\ badKeys = {}
  /\ web = AllAnswer([status |-> "ok", body |-> "c1", parsable |-> TRUE])

env == <<ctorSchemas, schemas, address, provider, ipfsGateway, owner, initialized,
         store, badKeys, web>>

\* No call is being looked at: the instance was just built, or the caller has
\* taken the outcome of the call before.
Idle == last.op = "idle"

GetData ==
  /\ Idle
  /\ \E arg \in Args : last' = [op |-> "getData", arg |-> arg, out |-> getData(arg)]
  /\ UNCHANGED env

FetchData ==
  /\ Idle
  /\ \E arg \in Args : last' = [op |-> "fetchData", arg |-> arg, out |-> fetchData(arg)]
  /\ UNCHANGED env

GetSchema ==
  /\ Idle
  /\ \E key \in {dN1.key, dJ1.key, "0xU"}, providedSchemas \in ProvidedChoices :
       last' = [op |-> "getSchema", key |-> key, provided |-> providedSchemas,
                out |-> getSchema(key, providedSchemas)]
  /\ UNCHANGED env

EncodeData ==
  /\ Idle
  /\ \E name \in {"N1", "J1", "U"}, value \in {StrV("x"), NumV(1)},
        providedSchemas \in ProvidedChoices :
       last' = [op |-> "encodeData", name |-> name, value |-> value,
                provided |-> providedSchemas,
                out |-> encodeData(name, value, providedSchemas)]
  /\ UNCHANGED env

DecodeData ==
  /\ Idle
  /\ \E name \in {"N1", "0xN1", "J1"}, raw \in {NoRaw, RawStr("x")} :
       LET data == <<[key |-> name, value |-> raw]>>
       IN last' = [op |-> "decodeData", data |-> data, out |-> facadeDecodeData(data)]
  /\ UNCHANGED env

GetOwner ==
  /\ Idle
  /\ \E _address \in {"", "0xAddr", OtherContract} :
       last' = [op |-> "getOwner", arg |-> ArgString(_address), out |-> getOwner(_address)]
  /\ UNCHANGED env

\* The caller takes the outcome of the call.
Return ==
  /\ ~Idle
  /\ last' = [op |-> "idle"]
  /\ UNCHANGED env

Next ==
  GetData \/ FetchData \/ GetOwner \/ GetSchema \/ EncodeData \/ DecodeData \/ Return

Spec == Init /\ [][Next]_vars

SpecRead == InitRead /\ [][Next]_vars

SpecRegistry == InitRegistry /\ [][Next]_vars

\* The gateway of the config and the urls of the references vary.
InitGateway ==
  /\ Constructed(<<dN1, dJ1, dStale, dJ2, dA>>)
  /\ \E config \in {NoConfig, Gw} : Configured(config)
  /\ Deployed
  /\ address = "0xAddr"
  /\ provider = "wrapper"
  /\ \E ref1 \in UrlChoices, ref2 \in UrlChoices : store = StoreWith(ref1, ref2, 1)
  /\ badKeys = {}
  /\ web \in {AllAnswer([status |-> "ok", body |-> "c1", parsable |-> TRUE]),
              AllAnswer([status |-> "fail"])}

SpecGateway == InitGateway /\ [][Next]_vars

\* The address and the provider handed to the constructor vary: the address
\* valid, not an address, or missing; the provider given or not.
InitStructural ==
  /\ Constructed(<<dN1, dJ1, dStale, dJ2, dA>>)
  /\ Configured(NoConfig)
  /\ Deployed
  /\ address \in {"0xAddr", "nope", ""}
  /\ provider \in {"wrapper", "none"}
  /\ \E ref2 \in {NoRaw, RawRef("0x8019f9b1", "keccak-bytes:c1", Url2)} :
       store = StoreWith(RawRef("0x6f357c6a", "keccak-utf8:c1", Url1), ref2, 1)
  /\ badKeys = {}
  /\ web = AllAnswer([status |-> "ok", body |-> "c1", parsable |-> TRUE])

SpecStructural == InitStructural /\ [][Next]_vars

\* getArrayValues and the assembly after it, on snapshots that hold the length
\* entry, or lack it, and any of the element entries.
Snapshots ==
  {[held |-> h, withLength |-> b] :
     h \in SUBSET (0..(MaxArrayLength - 1)), b \in BOOLEAN}

SnapshotOf(keySchema, held, withLength) ==
  LET n == ArrayLengthOf(StoreRead(keySchema.key))
      idx == SelectSeq([i \in 1..n |-> i - 1], LAMBDA i : i \in held)
  IN (IF withLength
      THEN <<[key |-> keySchema.key,
              value |-> LengthEntry(keySchema, StoreRead(keySchema.key))]>>
      ELSE <<>>)
       \o [j \in 1..Len(idx) |->
            [key |-> encodeArrayKey(keySchema.key, idx[j]),
             value |-> [key |-> encodeArrayKey(keySchema.key, idx[j]),
                        value |-> StoreRead(encodeArrayKey(keySchema.key, idx[j]))]]]

Assemble ==
  /\ Idle
  /\ \E snap \in Snapshots :
       LET data == SnapshotOf(dA, snap.held, snap.withLength)
       IN last' = [op |-> "assemble", held |-> snap.held, data |-> data,
                   out |-> assembleArray(dA, data, LengthEntry(dA, StoreRead(dA.key)), <<>>)]
  /\ UNCHANGED env

NextAssembler == Assemble \/ Return

SpecAssembler == InitRead /\ [][NextAssembler]_vars

-----------------------------------------------------------------------------
(* The store contract: implementations/contracts/ERC725/ERC725YInit.sol *)

\* address(0)
ZeroAddress == "0x0"
\* The accounts and contracts that send transactions.
Callers == {"0xA1", "0xB2", "0xD2"}
WrittenKeys == {dN1.key, dJ1.key}
WrittenValues == {RawStr("hello"), RawStr("x")}

\* A fresh proxy: nothing stored, no owner, not initialized.
EmptyStore == [k \in StoreKeys |-> NoRaw]

\* The outcome of a transaction: reverted, or the contract's new state.
Reverted == [reverted |-> TRUE, owner |-> owner, initialized |-> initialized, store |-> store]
Committed(o, i, st) == [reverted |-> FALSE, owner |-> o, initialized |-> i, store |-> st]

\* modifier onlyOwner of OwnableUpgradeable: owner() == msg.sender
anyCaller(sender) == TRUE

onlyOwner(sender) == owner = sender

\* initialize(_newOwner), lines 20-29.  The initializer modifier lets it run
\* once.  __Ownable_init_unchained makes the sender the owner; transferOwnership
\* then hands over to _newOwner, and reverts for address(0).
initialize(sender, newOwner) ==
  IF initialized THEN Reverted
  ELSE IF newOwner # sender /\ newOwner = ZeroAddress THEN Reverted
  ELSE Committed(newOwner, TRUE, store)

\* setData(_key, _value), lines 31-38: onlyOwner, then ERC725YCore.setData.
setData(sender, key, value) ==
  IF ~onlyOwner(sender) THEN Reverted
  ELSE Committed(owner, initialized, [store EXCEPT ![key] = value])

\* transferOwnership(newOwner) of OwnableUpgradeable.
transferOwnership(sender, newOwner) ==
  IF ~onlyOwner(sender) \/ newOwner = ZeroAddress THEN Reverted
  ELSE Committed(newOwner, initialized, store)

\* renounceOwnership() of OwnableUpgradeable.
renounceOwnership(sender) ==
  IF ~onlyOwner(sender) THEN Reverted
  ELSE Committed(ZeroAddress, initialized, store)

\* A transaction takes effect, or leaves the contract as it was.
Transact(call, tx) ==
  /\ Idle
  /\ owner' = tx.owner
  /\ initialized' = tx.initialized
  /\ store' = tx.store
  /\ last' = [op |-> call.op, call |-> call, reverted |-> tx.reverted,
              ownerBefore |-> owner, storeBefore |-> store]
  /\ UNCHANGED <<ctorSchemas, schemas, address, provider, ipfsGateway, badKeys, web>>

Initialize ==
  \E sender \in Callers, newOwner \in Callers \cup {ZeroAddress} :
    Transact([op |-> "initialize", sender |-> sender, newOwner |-> newOwner],
             initialize(sender, newOwner))

SetData ==
  \E sender \in Callers, key \in WrittenKeys, value \in WrittenValues :
    Transact([op |-> "setData", sender |-> sender, key |-> key, value |-> value],
             setData(sender, key, value))

TransferOwnership ==
  \E sender \in Callers, newOwner \in Callers \cup {ZeroAddress} :
    Transact([op |-> "transferOwnership", sender |-> sender, newOwner |-> newOwner],
             transferOwnership(sender, newOwner))

RenounceOwnership ==
  \E sender \in Callers :
    Transact([op |-> "renounceOwnership", sender |-> sender], renounceOwnership(sender))

\* A proxy of the contract from its deployment on.
InitContract ==
  /\ Constructed(<<dN1, dJ1>>)
  /\ Configured(NoConfig)
  /\ address = "0xAddr"
  /\ provider = "wrapper"
  /\ owner = ZeroAddress
  /\ initialized = FALSE
  /\ store = EmptyStore
  /\ badKeys = {}
  /\ web = AllAnswer([status |-> "fail"])

NextContract ==
  Initialize \/ SetData \/ TransferOwnership \/ RenounceOwnership \/ Return

SpecContract == InitContract /\ [][NextContract]_vars

-----------------------------------------------------------------------------
(* Properties *)

Authentic(body, ref) ==
  \/ ref.hashFunction = KECCAK256_UTF8 /\ ref.hash = "keccak-utf8:" \o body
  \/ ref.hashFunction = KECCAK256_BYTES /\ ref.hash = "keccak-bytes:" \o body

IsExternalName(name) ==
  /\ getSchemaElement(schemas, name).ok
  /\ getSchemaElement(schemas, name).val.valueContent \in {"JSONURL", "ASSETURL"}

\* What the store holds for a name of the registry, decoded.
ChainValue(name) == ObjGet(last.out.chain, name)

\* The names of the external references the call read from the store.
ExternalRefs ==
  {last.out.chain[i].key : i \in
     {j \in 1..Len(last.out.chain) :
        IsExternalName(last.out.chain[j].key) /\ last.out.chain[j].value.t = "ref"}}

\* The response to the fetch issued for a reference.
ResponseFor(ref) ==
  web[IF ref.url[1] = "ipfs://" THEN <<ipfsGateway>> \o Tail(ref.url) ELSE ref.url]

ListCall(op) == last.op = op /\ last.arg.kind # "string"

\* C1: in the mapping fetchData returns, every entry whose valueContent is
\* JSONURL or ASSETURL is the fetched content (authentic) or null, never the raw
\* {hashFunction, hash, url} reference, whatever the number of such entries.
C1_ExternalEntriesOverlaid ==
  (ListCall("fetchData") /\ last.out.ok) =>
    \A i \in 1..Len(last.out.val.entries) :
      LET e == last.out.val.entries[i]
      IN IsExternalName(e.key) =>
           \/ e.value.t = "null"
           \/ e.value.t = "content" /\ Authentic(e.value.body, ChainValue(e.key))

\* C2: for a reference with stored hash H and hash function F whose fetch
\* succeeded, the resolver step yields the fetched content if and only if
\* digest_F(content) = H, and null in every other case.
C2_AuthenticationLaw ==
  last.op = "fetchData" =>
    \A i \in 1..Len(last.out.assigned) :
      LET a == last.out.assigned[i]
          ref == ChainValue(a.key)
      IN ref.t = "ref" =>
           /\ ResponseFor(ref).status = "ok"
           /\ IF Authentic(ResponseFor(ref).body, ref)
              THEN a.value.t = "content" /\ a.value.body = ResponseFor(ref).body
              ELSE a.value = NullV

C2_Witness ==
  /\ last.op = "fetchData"
  /\ \E i, j \in 1..Len(last.out.assigned) :
       /\ last.out.assigned[i].value.t = "content"
       /\ last.out.assigned[j].value.t = "null"
       /\ ChainValue(last.out.assigned[j].key).t = "ref"
       /\ ChainValue(last.out.assigned[j].key).hashFunction # "unsupported"

Known(name) == \E i \in 1..Len(schemas) : Matches(schemas[i], name)

\* C3: in getData with a list of names, a name with no schema descriptor maps
\* to null or is omitted and does not abort the call: the names that do
\* resolve are still read and decoded.
C3_UnknownNameIsolated ==
  (last.op = "getData" /\ last.arg.kind = "list" /\ badKeys = {}) =>
    /\ last.out.ok
    /\ \A i \in 1..Len(last.arg.names) :
         LET name == last.arg.names[i]
         IN IF Known(name)
            THEN ObjHas(last.out.val.entries, name)
            ELSE ObjHas(last.out.val.entries, name) =>
                   ObjGet(last.out.val.entries, name) = NullV

RECURSIVE ValidInOrder(_)
ValidInOrder(q) ==
  IF q = <<>> THEN <<>>
  ELSE IF Head(q).key = "0x" \o Head(q).name
  THEN <<Head(q)>> \o ValidInOrder(Tail(q))
  ELSE ValidInOrder(Tail(q))

\* C4: the registry holds exactly the constructor's descriptors whose key is
\* deriveKey(name), in their original order, and still does after any sequence
\* of getData, fetchData, getSchema, encodeData and decodeData.
C4_RegistryHoldsValidDescriptors ==
  /\ schemas = ValidInOrder(ctorSchemas)
  /\ \A i \in 1..Len(schemas) : schemas[i].key = "0x" \o schemas[i].name

C4_Witness ==
  /\ last.op \in {"getData", "fetchData", "getSchema", "encodeData", "decodeData"}
  /\ Len(ctorSchemas) = 3
  /\ ctorSchemas[2].key # "0x" \o ctorSchemas[2].name
  /\ schemas = <<ctorSchemas[1], ctorSchemas[3]>>
  /\ ctorSchemas[1] # ctorSchemas[3]

BothMatch ==
  /\ last.op = "getSchema"
  /\ \E i \in 1..Len(last.provided) : last.provided[i].key = last.key
  /\ \E j \in 1..Len(schemas) : schemas[j].key = last.key

FirstWithKey(list, key) ==
  list[CHOOSE i \in 1..Len(list) :
         list[i].key = key /\ \A j \in 1..(i - 1) : list[j].key # key]

ArrayReadFails ==
  /\ encodeArrayKey(dA.key, 0) \in badKeys
  /\ ArrayLengthOf(store[dA.key]) >= 1

\* C7: when the batched read of an array's missing element keys fails, the
\* failure is not propagated: getData of the array alone returns the empty
\* sequence, and getData of a list still returns the other names decoded.
C7_ArrayReadFailureSwallowed ==
  (last.op = "getData" /\ ArrayReadFails) =>
    /\ last.arg = ArgString("A[]") => last.out.ok /\ last.out.val = ListV(<<>>)
    /\ (last.arg.kind = "list" /\ \A i \in 1..Len(last.arg.names) : Known(last.arg.names[i])) =>
         /\ last.out.ok
         /\ \A i \in 1..Len(last.arg.names) :
              LET name == last.arg.names[i]
              IN /\ ObjHas(last.out.val.entries, name)
                 /\ name = "A[]" => ObjGet(last.out.val.entries, name) = ListV(<<>>)
                 /\ name = "N1" => ObjGet(last.out.val.entries, name) = StrV("hello")
                 /\ name = "J2" => ObjGet(last.out.val.entries, name) = NullV
                 /\ name = "J1" =>
                      ObjGet(last.out.val.entries, name).t =
                        (IF store[dJ1.key] = NoRaw THEN "null" ELSE "ref")

C7_Witness ==
  /\ last.op = "getData"
  /\ ArrayReadFails
  /\ last.arg = ArgList(<<"A[]", "N1">>)
  /\ last.out.ok
  /\ ObjGet(last.out.val.entries, "N1") = StrV("hello")

\* Whether the reducer's call for a reference throws.
TransportFails(name) == ResponseFor(ChainValue(name)).status = "fail"
Unparsable(name) ==
  /\ ResponseFor(ChainValue(name)).status = "ok"
  /\ ChainValue(name).hashFunction # KECCAK256_BYTES
  /\ ~ResponseFor(ChainValue(name)).parsable

\* C8: a transport failure while fetching the content of any entry of a
\* fetchData call makes the call fail with an error, whatever the position of
\* the entry among the external references; a hash mismatch makes no error.
C8_TransportFailurePropagates ==
  last.op = "fetchData" =>
    /\ (\E name \in ExternalRefs : TransportFails(name)) =>
         /\ ~last.out.ok
         /\ last.out.err \in {"FetchError", "SyntaxError"}
         /\ (\A name \in ExternalRefs : ~Unparsable(name)) => last.out.err = "FetchError"
    /\ (ExternalRefs # {} /\ \A name \in ExternalRefs : ~TransportFails(name) /\ ~Unparsable(name)) =>
         /\ last.out.ok
         /\ \A i \in 1..Len(last.out.assigned) :
              LET a == last.out.assigned[i]
              IN (ChainValue(a.key).t = "ref"
                    /\ ~Authentic(ResponseFor(ChainValue(a.key)).body, ChainValue(a.key))) =>
                   a.value = NullV

\* The failing entry is the second of two external references, the first of
\* which was fetched.
C8_Witness ==
  /\ last.op = "fetchData"
  /\ last.arg = ArgList(<<"J1", "J2">>)
  /\ ExternalRefs = {"J1", "J2"}
  /\ ~TransportFails("J1") /\ ~Unparsable("J1")
  /\ TransportFails("J2")
  /\ ~last.out.ok /\ last.out.err = "FetchError"

\* The names of the call whose valueContent is JSONURL or ASSETURL.
ExternalNames ==
  {last.out.chain[i].key : i \in
     {j \in 1..Len(last.out.chain) : IsExternalName(last.out.chain[j].key)}}

\* C9: an external reference whose hashFunction is unsupported resolves to
\* null and never makes fetchData throw, whatever the fetched content is
\* (content that cannot be parsed included).  Stated for the calls with one
\* external entry, where no other entry can interfere.
C9_UnsupportedNeverThrows ==
  (/\ last.op = "fetchData"
   /\ Cardinality(ExternalNames) = 1
   /\ ExternalRefs = ExternalNames
   /\ \A name \in ExternalRefs :
        /\ ChainValue(name).hashFunction = "unsupported"
        /\ ~TransportFails(name)) =>
    /\ last.out.ok
    /\ \A name \in ExternalRefs :
         IF last.arg.kind = "string" THEN last.out.val = NullV
         ELSE ObjGet(last.out.val.entries, name) = NullV

\* The results fetchData computes: the store's values, overlaid with what the
\* reducer assigned to the initial object.
Overlaid(name) ==
  IF \E i \in 1..Len(last.out.assigned) :
       last.out.assigned[i].key = name /\ last.out.assigned[i].accumulator = 0
  THEN last.out.assigned[CHOOSE i \in 1..Len(last.out.assigned) :
                            last.out.assigned[i].key = name].value
  ELSE ChainValue(name)

C11_IpfsUrlRewritten ==
  last.op = "fetchData" =>
    \A i \in 1..Len(last.out.fetches) :
      LET f == last.out.fetches[i]
      IN /\ f.entry.url[1] = "ipfs://" => f.url = <<ipfsGateway>> \o Tail(f.entry.url)
         /\ ~HasIpfs(f.entry.url) => f.url = f.entry.url
         /\ f.patched.hash = f.entry.hash
         /\ f.patched.hashFunction = f.entry.hashFunction

\* A call under the gateway of the config that fetches an ipfs:// reference
\* through the gateway and another reference under its own url.
C11_Witness ==
  /\ last.op = "fetchData"
  /\ ipfsGateway = Gw
  /\ Len(last.out.fetches) = 2
  /\ \E i \in 1..2 : /\ last.out.fetches[i].entry.url = Url1
                      /\ last.out.fetches[i].url = Url1Gw
  /\ \E i \in 1..2 : /\ last.out.fetches[i].entry.url = Url2
                      /\ last.out.fetches[i].url = Url2

\* C12: a setData call takes effect exactly when its sender is the owner at
\* the time of the call; from any other sender, and from anyone before
\* initialize, it reverts and the store is as it was before the call.  A call
\* that takes effect writes the one key.
C12_SetDataOnlyOwner ==
  last.op = "setData" =>
    /\ last.reverted <=> last.call.sender # last.ownerBefore
    /\ last.reverted => store = last.storeBefore
    /\ ~last.reverted =>
         store = [last.storeBefore EXCEPT ![last.call.key] = last.call.value]

\* After initialize and a change of owner, the former owner's setData reverts
\* on a store that the owner had written.
C12_Witness ==
  /\ last.op = "setData"
  /\ initialized
  /\ last.reverted
  /\ last.call.sender = "0xA1"
  /\ last.ownerBefore = "0xB2"
  /\ store[dN1.key] = RawStr("x")
  /\ last.call.value = RawStr("hello")

\* The names a call hands to getDataMultiple.
RequestedNames ==
  IF Falsy(last.arg) THEN [i \in 1..Len(schemas) |-> schemas[i].name]
  ELSE IF last.arg.kind = "list" THEN last.arg.names
  ELSE <<last.arg.s>>

\* The call goes through getDataMultiple.
MultipleCall ==
  \/ last.op = "fetchData"
  \/ last.op = "getData" /\ (last.arg.kind = "list" \/ Falsy(last.arg))

\* Every element key of the array under its stored length.
AllElementKeys(schema) ==
  [i \in 1..ArrayLengthOf(StoreRead(schema.key)) |-> encodeArrayKey(schema.key, i - 1)]

ArraySchemas == SelectSeq(schemas, LAMBDA e : e.keyType = "Array")

\* C13: no call through getDataMultiple reads the store key by key.  A call
\* whose names all resolve issues exactly one batched read, of the keys of all
\* the requested names, and after it at most one batched read per array, of
\* all of that array's element keys, whatever the array's length; a call that
\* fails before the store is reached issues none.  The array of a single-name
\* call is read in one batched read after the read of its length.
C13_ReadsAreBatched ==
  /\ MultipleCall =>
        LET reads == last.out.reads
            names == RequestedNames
            resolved == \A i \in 1..Len(names) : Known(names[i])
        IN /\ \A i \in 1..Len(reads) : reads[i].call = "getAllData"
           /\ ~resolved => reads = <<>>
           /\ resolved =>
                /\ Len(reads) >= 1
                /\ reads[1].keys =
                     [i \in 1..Len(names) |-> getSchemaElement(schemas, names[i]).val.key]
                /\ Len(reads) <= 1 + Len(ArraySchemas)
                /\ \A i \in 2..Len(reads) :
                     \E j \in 1..Len(ArraySchemas) :
                       reads[i].keys = AllElementKeys(ArraySchemas[j])
  /\ (last.op = "getData" /\ ~MultipleCall /\ last.arg.s = dA.name) =>
        /\ Len(last.out.reads) <= 2
        /\ last.out.reads[1] = ReadOne(dA.key)
        /\ Len(last.out.reads) = 2 => last.out.reads[2] = ReadMany(AllElementKeys(dA))

\* A call for two names, one of them the array of MaxArrayLength elements:
\* two reads in all, one for the two keys and one for all the elements.
C13_Witness ==
  /\ last.op = "getData"
  /\ last.arg = ArgList(<<"A[]", "N1">>)
  /\ last.out.ok
  /\ ArrayLengthOf(StoreRead(dA.key)) = MaxArrayLength
  /\ last.out.reads = <<ReadMany(<<dA.key, dN1.key>>), ReadMany(AllElementKeys(dA))>>

\* The length entry of the snapshot is absent, or its value is empty.
NoLength(data) ==
  ~ObjHas(data, dA.key) \/ ObjGet(data, dA.key).value = NoRaw

\* C14: every key that getArrayValues asks the store for is the element key
\* of an index i with 0 <= i < n, n the length held in the snapshot's length
\* entry, and the snapshot holds no entry under that key; when the length entry
\* is absent or its value is empty, the result is empty and no read is issued.
C14_ElementKeysWithinLength ==
  last.op = "assemble" =>
    LET n == ArrayLengthOf(StoreRead(dA.key))
        reads == last.out.reads
    IN /\ NoLength(last.data) =>
            /\ reads = <<>>
            /\ last.out.ok
            /\ last.out.val = ListV(<<>>)
       /\ \A r \in 1..Len(reads) : \A k \in 1..Len(reads[r].keys) :
            /\ \E i \in 0..(n - 1) : reads[r].keys[k] = encodeArrayKey(dA.key, i)
            /\ ~ObjHas(last.data, reads[r].keys[k])

\* A snapshot that holds the length MaxArrayLength and the element 0: the one
\* key asked for is that of the last element.
C14_Witness ==
  /\ last.op = "assemble"
  /\ MaxArrayLength >= 2
  /\ ArrayLengthOf(StoreRead(dA.key)) = MaxArrayLength
  /\ last.held = 0..(MaxArrayLength - 2)
  /\ last.out.reads = <<ReadMany(<<encodeArrayKey(dA.key, MaxArrayLength - 1)>>)>>

\* The instance has no usable target address, or no provider.
StructuralFault ==
  address = "" \/ ~isAddress(address) \/ provider = "none"

\* C15: on an instance whose address is missing or not an address, or that has
\* no provider, getData, fetchData and getOwner fail with an error: no store
\* read is issued, no fetch is issued, and the outcome carries no value.
C15_StructuralFailureAborts ==
  (last.op \in {"getData", "fetchData", "getOwner"} /\ StructuralFault) =>
    /\ ~last.out.ok
    /\ last.out.err \in {"Missing ERC725 contract address.", "Missing provider."}
    /\ "val" \notin DOMAIN last.out
    /\ last.out.reads = <<>>
    /\ last.op = "fetchData" => last.out.fetches = <<>> /\ last.out.assigned = <<>>

\* fetchData for all keys on an instance with a valid address and no provider.
C15_Witness ==
  /\ last.op = "fetchData"
  /\ last.arg = ArgUndefined
  /\ address = "0xAddr"
  /\ provider = "none"
  /\ ~last.out.ok
  /\ last.out.err = "Missing provider."

====
